---- MODULE Spec2Model ----
(***************************************************************************)
(* Model of docker/showui/server.py: the module-level loading of the       *)
(* ShowUI model and its preprocessor, and the request handler predict().   *)
(*                                                                         *)
(* Text is a sequence of one-character strings, so that the literal        *)
(* parser and the string formatting of predict() work on characters, as    *)
(* ast.literal_eval and the f-string of the source do.                     *)
(***************************************************************************)
EXTENDS Integers, Sequences, FiniteSets, TLC

(***************************************************************************)
(* Bounds of the model.                                                    *)
(***************************************************************************)
\* The longest generated token sequence explored (the source allows 128).
MaxTokens == 5

(***************************************************************************)
(* Program constants.                                                      *)
(***************************************************************************)
MIN_PIXELS == 256 * 28 * 28
MAX_PIXELS == 1344 * 28 * 28
max_new_tokens == 128

\* The tokens the model's vocabulary is restricted to, each the text it
\* decodes to.  "e" serves both as the exponent marker of a number and as
\* a name; ".5" is a number written without its leading zero.
Vocabulary ==
    { <<"[">>, <<"]">>, <<",">>, <<"{">>, <<"}">>,
      <<"0">>, <<"1">>, <<".", "5">>, <<"e">> }

(***************************************************************************)
(* Characters.                                                             *)
(***************************************************************************)
Digits == {"0", "1", "2", "3", "4", "5", "6", "7", "8", "9"}
NameChars == {"e"}
Punctuation == {"[", "]", "{", "}", ","}

DigitVal(c) ==
    CASE c = "0" -> 0 [] c = "1" -> 1 [] c = "2" -> 2 [] c = "3" -> 3
      [] c = "4" -> 4 [] c = "5" -> 5 [] c = "6" -> 6 [] c = "7" -> 7
      [] c = "8" -> 8 [] c = "9" -> 9

\* s[a..b-1]
Slice(s, a, b) == SubSeq(s, a, b - 1)

RECURSIVE Concat(_)
\* batch_decode: the text of a token sequence is the tokens' texts joined.
Concat(toks) ==
    IF toks = <<>> THEN <<>> ELSE Head(toks) \o Concat(Tail(toks))

(***************************************************************************)
(* Python values.  A number keeps its decimal digits: an int is its        *)
(* digits without leading zeros; a float is its significant digits         *)
(* (neither leading nor trailing zeros) and the position of the decimal    *)
(* point, the value being 0.d1d2... * 10^decpt.  Literals of at most 15    *)
(* significant digits, all that the bounds reach, convert to a double and  *)
(* back to these same digits.                                              *)
(***************************************************************************)
NoElts == <<>>

IntValue(ds) ==
    [kind |-> "int", digits |-> ds, decpt |-> 0, inf |-> FALSE, elts |-> NoElts]

FloatValue(ds, p) ==
    [kind |-> "float", digits |-> ds, decpt |-> p, inf |-> FALSE, elts |-> NoElts]

InfValue ==
    [kind |-> "float", digits |-> <<>>, decpt |-> 0, inf |-> TRUE, elts |-> NoElts]

Container(k, es) ==
    [kind |-> k, digits |-> <<>>, decpt |-> 0, inf |-> FALSE, elts |-> es]

NoneValue == Container("None", NoElts)

IsNumber(v) == v.kind \in {"int", "float"}

RECURSIVE StripLeadingZeros(_)
StripLeadingZeros(ds) ==
    IF ds # <<>> /\ Head(ds) = "0" THEN StripLeadingZeros(Tail(ds)) ELSE ds

RECURSIVE StripTrailingZeros(_)
StripTrailingZeros(ds) ==
    IF ds # <<>> /\ ds[Len(ds)] = "0"
    THEN StripTrailingZeros(SubSeq(ds, 1, Len(ds) - 1))
    ELSE ds

RECURSIVE ToNat(_)
ToNat(ds) ==
    IF ds = <<>> THEN 0
    ELSE 10 * ToNat(SubSeq(ds, 1, Len(ds) - 1)) + DigitVal(ds[Len(ds)])

\* The digits of the largest double, 1.7976931348623157e308, as 0.d * 10^309.
DBL_MAX_DIGITS ==
    <<"1", "7", "9", "7", "6", "9", "3", "1", "3", "4", "8", "6", "2", "3",
      "1", "5", "7">>

RECURSIVE DigitsAbove(_, _)
\* 0.a > 0.b for digit sequences a, b without trailing zeros
DigitsAbove(a, b) ==
    IF a = <<>> THEN FALSE
    ELSE IF b = <<>> THEN TRUE
    ELSE IF DigitVal(Head(a)) # DigitVal(Head(b))
         THEN DigitVal(Head(a)) > DigitVal(Head(b))
    ELSE DigitsAbove(Tail(a), Tail(b))

\* A decimal literal beyond the double range evaluates to inf.
Overflows(sig, p) ==
    \/ p > 309
    \/ p = 309 /\ DigitsAbove(sig, DBL_MAX_DIGITS)

\* float("<int>.<frac>e<exp>")
MakeFloat(intDigits, fracDigits, exp) ==
    LET all == intDigits \o fracDigits
        lead == StripLeadingZeros(all)
        sig == StripTrailingZeros(lead)
        p == Len(intDigits) - (Len(all) - Len(lead)) + exp
    IN  IF sig = <<>> THEN FloatValue(<<>>, 0)
        ELSE IF Overflows(sig, p) THEN InfValue
        ELSE FloatValue(sig, p)

\* int("<digits>")
MakeInt(ds) ==
    LET s == StripLeadingZeros(ds)
    IN  IntValue(IF s = <<>> THEN <<"0">> ELSE s)

(***************************************************************************)
(* The tokenizer of the literal parser, for the characters of Vocabulary.  *)
(***************************************************************************)
Token(t, text, v) == [type |-> t, src |-> text, val |-> v]

RECURSIVE ScanDigits(_, _)
\* the first position at or after i that holds no digit
ScanDigits(s, i) ==
    IF i <= Len(s) /\ s[i] \in Digits THEN ScanDigits(s, i + 1) ELSE i

RECURSIVE ScanName(_, _)
ScanName(s, i) ==
    IF i <= Len(s) /\ s[i] \in NameChars \cup Digits
    THEN ScanName(s, i + 1)
    ELSE i

\* A number starts at i: digits, or a point followed by a digit.
StartsNumber(s, i) ==
    \/ s[i] \in Digits
    \/ s[i] = "." /\ i + 1 <= Len(s) /\ s[i + 1] \in Digits

\* The number token s[i..d-1], whose integer part ends before a, whose
\* fraction ends before b and whose exponent ends before d: [ok, end, tok].
\* An exponent marker needs digits, an integer with a leading zero is all
\* zeros, and no name character may follow the number.
NumberToken(s, i, a, hasDot, b, hasExp, d) ==
    LET intDigits == Slice(s, i, a)
        fracDigits == IF hasDot THEN Slice(s, a + 1, b) ELSE <<>>
        expDigits == IF hasExp THEN Slice(s, b + 1, d) ELSE <<>>
    IN  IF /\ hasExp => d > b + 1
           /\ ~(d <= Len(s) /\ s[d] \in NameChars)
           /\ (~hasDot /\ ~hasExp /\ s[i] = "0")
                  => StripLeadingZeros(intDigits) = <<>>
        THEN [ok |-> TRUE, end |-> d,
              tok |-> Token("NUMBER", Slice(s, i, d),
                            IF hasDot \/ hasExp
                            THEN MakeFloat(intDigits, fracDigits, ToNat(expDigits))
                            ELSE MakeInt(intDigits))]
        ELSE [ok |-> FALSE, end |-> i, tok |-> Token("ERROR", <<>>, NoneValue)]

\* the exponent, if an "e" follows the fraction
ScanExponent(s, i, a, hasDot, b) ==
    IF b <= Len(s) /\ s[b] = "e"
    THEN NumberToken(s, i, a, hasDot, b, TRUE, ScanDigits(s, b + 1))
    ELSE NumberToken(s, i, a, hasDot, b, FALSE, b)

\* the fraction, if a point follows the integer part
ScanFraction(s, i, a) ==
    IF a <= Len(s) /\ s[a] = "."
    THEN ScanExponent(s, i, a, TRUE, ScanDigits(s, a + 1))
    ELSE ScanExponent(s, i, a, FALSE, a)

\* The number token at i: a decimal integer, or a float with a fraction
\* and/or an exponent.
ScanNumber(s, i) == ScanFraction(s, i, ScanDigits(s, i))

\* The token at position i: [ok, end, tok].
NextToken(s, i) ==
    IF s[i] \in Punctuation
    THEN [ok |-> TRUE, end |-> i + 1, tok |-> Token("OP", <<s[i]>>, NoneValue)]
    ELSE IF StartsNumber(s, i) THEN ScanNumber(s, i)
    ELSE IF s[i] \in NameChars
    THEN LET j == ScanName(s, i)
         IN  [ok |-> TRUE, end |-> j,
              tok |-> Token("NAME", Slice(s, i, j), NoneValue)]
    ELSE [ok |-> FALSE, end |-> i, tok |-> Token("ERROR", <<>>, NoneValue)]

RECURSIVE Tokenize(_, _, _)
\* The tokens of s from position i on, after acc: [ok, toks].  A space
\* after the first character separates tokens.
Tokenize(s, i, acc) ==
    IF i > Len(s) THEN [ok |-> TRUE, toks |-> acc]
    ELSE IF s[i] = " " /\ i > 1 THEN Tokenize(s, i + 1, acc)
    ELSE LET n == NextToken(s, i)
         IN  IF n.ok THEN Tokenize(s, n.end, Append(acc, n.tok))
             ELSE [ok |-> FALSE, toks |-> <<>>]

(***************************************************************************)
(* The expression grammar of the literal parser over these tokens:         *)
(*     input   ::= items                 (one item: itself; else a tuple)  *)
(*     items   ::= expr ("," expr)* [","]                                  *)
(*     expr    ::= atom ("[" items "]")*                                   *)
(*     atom    ::= NUMBER | NAME | "[" [items] "]" | "{" [items] "}"       *)
(* parsed with a stack of the open brackets.  A node is [kind, tok, elts]; *)
(* a frame holds the items read so far inside one bracket, whether an      *)
(* item or a comma was read last, and the number of commas.                *)
(***************************************************************************)
Node(k, t, es) == [kind |-> k, tok |-> t, elts |-> es]
NoToken == Token("NONE", <<>>, NoneValue)
NoNode == Node("None", NoToken, <<>>)
SyntaxError == [ok |-> FALSE, node |-> NoNode]

Frame(k) == [kind |-> k, elts |-> <<>>, state |-> "start", commas |-> 0]

IsOp(t, c) == t.type = "OP" /\ t.src = <<c>>

\* the frame after one more item
WithItem(f, n) == [f EXCEPT !.elts = Append(f.elts, n), !.state = "item"]

\* the frame with its last item subscripted
WithSubscript(f) ==
    [f EXCEPT !.elts[Len(f.elts)] = Node("Subscript", NoToken, <<f.elts[Len(f.elts)]>>)]

\* the node of a closed display
Display(f) ==
    IF f.kind = "list" THEN Node("List", NoToken, f.elts)
    ELSE IF f.elts = <<>> THEN Node("Dict", NoToken, <<>>)
    ELSE Node("Set", NoToken, f.elts)

\* token t closes frame f: a subscript holds at least one item
Closes(t, f) ==
    \/ IsOp(t, "]") /\ f.kind = "list"
    \/ IsOp(t, "]") /\ f.kind = "sub" /\ f.elts # <<>>
    \/ IsOp(t, "}") /\ f.kind = "set"

\* The open frames after token t is read, the innermost last: [ok, stack].
Shift(stack, t) ==
    LET depth == Len(stack)
        top == stack[depth]
        below == SubSeq(stack, 1, depth - 1)
        wantsItem == top.state \in {"start", "comma"}
        To(st) == [ok |-> TRUE, stack |-> st]
    IN  IF wantsItem /\ t.type = "NUMBER"
        THEN To(Append(below, WithItem(top, Node("Constant", t, <<>>))))
        ELSE IF wantsItem /\ t.type = "NAME"
        THEN To(Append(below, WithItem(top, Node("Name", t, <<>>))))
        ELSE IF wantsItem /\ IsOp(t, "[")
        THEN To(Append(stack, Frame("list")))
        ELSE IF wantsItem /\ IsOp(t, "{")
        THEN To(Append(stack, Frame("set")))
        ELSE IF ~wantsItem /\ IsOp(t, "[")
        THEN To(Append(stack, Frame("sub")))
        ELSE IF ~wantsItem /\ IsOp(t, ",")
        THEN To(Append(below, [top EXCEPT !.state = "comma",
                                          !.commas = top.commas + 1]))
        ELSE IF depth > 1 /\ Closes(t, top)
        THEN LET outer == below[depth - 1]
                 closed == IF top.kind = "sub"
                           THEN WithSubscript(outer)
                           ELSE WithItem(outer, Display(top))
             IN  To(Append(SubSeq(below, 1, depth - 2), closed))
        ELSE [ok |-> FALSE, stack |-> <<>>]

RECURSIVE ParseFrom(_, _, _)
\* The parse of the tokens from position i on, with the open frames in
\* stack: [ok, node].
ParseFrom(toks, i, stack) ==
    IF i > Len(toks)
    THEN LET top == stack[1]
         IN  IF Len(stack) = 1 /\ top.elts # <<>>
             THEN [ok |-> TRUE,
                   node |-> IF top.commas = 0
                            THEN top.elts[1]
                            ELSE Node("Tuple", NoToken, top.elts)]
             ELSE SyntaxError
    ELSE LET next == Shift(stack, toks[i])
         IN  IF next.ok THEN ParseFrom(toks, i + 1, next.stack)
             ELSE SyntaxError

\* ast.parse(text, mode="eval"): [ok, node]; not ok is a SyntaxError
Parse(text) ==
    LET lexed == Tokenize(text, 1, <<>>)
    IN  IF lexed.ok THEN ParseFrom(lexed.toks, 1, <<Frame("top")>>)
        ELSE SyntaxError

(***************************************************************************)
(* The conversion of the syntax tree to a value (ast.literal_eval's        *)
(* _convert): constants, tuples, lists, sets and the empty dict; any other *)
(* node is a ValueError, and an unhashable member of a set a TypeError.    *)
(* The elements are converted in order, so the first failure is raised.    *)
(***************************************************************************)
Raised(e) == [exc |-> e, val |-> NoneValue]
Value(v) == [exc |-> "none", val |-> v]

RECURSIVE Hashable(_)
Hashable(v) ==
    \/ IsNumber(v)
    \/ v.kind = "tuple" /\ \A i \in 1..Len(v.elts) : Hashable(v.elts[i])

\* the digits and the point position of a number, int or float alike
Norm(v) ==
    IF v.kind = "int"
    THEN LET sig == StripTrailingZeros(v.digits)
         IN  IF v.digits = <<"0">> THEN <<<<>>, 0, FALSE>>
             ELSE <<sig, Len(v.digits), FALSE>>
    ELSE <<v.digits, v.decpt, v.inf>>

RECURSIVE PyEq(_, _)
\* a == b in Python, for hashable values
PyEq(a, b) ==
    IF IsNumber(a) /\ IsNumber(b) THEN Norm(a) = Norm(b)
    ELSE /\ a.kind = "tuple" /\ b.kind = "tuple"
         /\ Len(a.elts) = Len(b.elts)
         /\ \A i \in 1..Len(a.elts) : PyEq(a.elts[i], b.elts[i])

\* set.add: an equal member is kept once.  The members are kept in the
\* order of insertion; the order in which Python iterates a set follows the
\* members' hashes, and matters to str() of a set of two or more members.
SetAdd(members, v) ==
    IF \E i \in 1..Len(members) : PyEq(members[i], v)
    THEN members
    ELSE Append(members, v)

RECURSIVE Convert(_), ConvertElts(_, _, _, _)

ConvertElts(nodes, i, kind, acc) ==
    IF i > Len(nodes) THEN Value(Container(kind, acc))
    ELSE LET c == Convert(nodes[i])
         IN  IF c.exc # "none" THEN c
             ELSE IF kind = "set"
             THEN IF Hashable(c.val)
                  THEN ConvertElts(nodes, i + 1, kind, SetAdd(acc, c.val))
                  ELSE Raised("TypeError")
             ELSE ConvertElts(nodes, i + 1, kind, Append(acc, c.val))

Convert(node) ==
    CASE node.kind = "Constant" -> Value(node.tok.val)
      [] node.kind = "Tuple" -> ConvertElts(node.elts, 1, "tuple", <<>>)
      [] node.kind = "List" -> ConvertElts(node.elts, 1, "list", <<>>)
      [] node.kind = "Set" -> ConvertElts(node.elts, 1, "set", <<>>)
      [] node.kind = "Dict" -> Value(Container("dict", <<>>))
      [] OTHER -> Raised("ValueError")

\* ast.literal_eval(text): [exc, val]
literal_eval(text) ==
    LET p == Parse(text)
    IN  IF p.ok THEN Convert(p.node) ELSE Raised("SyntaxError")


(***************************************************************************)
(* str() of a value, as the f-string of predict() applies it.  A float is  *)
(* written with the shortest digits that give it back: in positional       *)
(* notation when the point position is in -3..16, else with an exponent    *)
(* of at least two digits.                                                 *)
(***************************************************************************)
RECURSIVE Zeros(_)
Zeros(n) == IF n <= 0 THEN <<>> ELSE <<"0">> \o Zeros(n - 1)

DigitChar(d) ==
    CASE d = 0 -> "0" [] d = 1 -> "1" [] d = 2 -> "2" [] d = 3 -> "3"
      [] d = 4 -> "4" [] d = 5 -> "5" [] d = 6 -> "6" [] d = 7 -> "7"
      [] d = 8 -> "8" [] d = 9 -> "9"

RECURSIVE NatDigits(_)
NatDigits(n) ==
    IF n < 10 THEN <<DigitChar(n)>>
    ELSE Append(NatDigits(n \div 10), DigitChar(n % 10))

\* str() of a float that leaves out the zero before the point
float_repr_bare_point(v) ==
    LET ds == v.digits
        n == Len(ds)
        p == v.decpt
        x == IF p >= 1 THEN p - 1 ELSE 1 - p
        xs == NatDigits(x)
    IN  IF v.inf THEN <<"i", "n", "f">>
        ELSE IF ds = <<>> THEN <<"0", ".", "0">>
        ELSE IF p <= -4 \/ p > 16
        THEN <<Head(ds)>>
             \o (IF n > 1 THEN <<".">> \o Tail(ds) ELSE <<>>)
             \o <<"e", IF p >= 1 THEN "+" ELSE "-">>
             \o (IF Len(xs) < 2 THEN <<"0">> \o xs ELSE xs)
        ELSE IF p <= 0 THEN <<".">> \o Zeros(0 - p) \o ds
        ELSE IF p < n THEN SubSeq(ds, 1, p) \o <<".">> \o SubSeq(ds, p + 1, n)
        ELSE ds \o Zeros(p - n) \o <<".", "0">>

float_repr(v) ==
    LET ds == v.digits
        n == Len(ds)
        p == v.decpt
        x == IF p >= 1 THEN p - 1 ELSE 1 - p
        xs == NatDigits(x)
    IN  IF v.inf THEN <<"i", "n", "f">>
        ELSE IF ds = <<>> THEN <<"0", ".", "0">>
        ELSE IF p <= -4 \/ p > 16
        THEN <<Head(ds)>>
             \o (IF n > 1 THEN <<".">> \o Tail(ds) ELSE <<>>)
             \o <<"e", IF p >= 1 THEN "+" ELSE "-">>
             \o (IF Len(xs) < 2 THEN <<"0">> \o xs ELSE xs)
        ELSE IF p <= 0 THEN <<"0", ".">> \o Zeros(0 - p) \o ds
        ELSE IF p < n THEN SubSeq(ds, 1, p) \o <<".">> \o SubSeq(ds, p + 1, n)
        ELSE ds \o Zeros(p - n) \o <<".", "0">>

RECURSIVE Str(_), JoinReprs(_, _)

\* ", ".join(map(repr, elts[i:]))
JoinReprs(elts, i) ==
    IF i > Len(elts) THEN <<>>
    ELSE Str(elts[i])
         \o (IF i < Len(elts) THEN <<",", " ">> ELSE <<>>)
         \o JoinReprs(elts, i + 1)

Str(v) ==
    CASE v.kind = "int" -> v.digits
      [] v.kind = "float" -> float_repr(v)
      [] v.kind = "list" -> <<"[">> \o JoinReprs(v.elts, 1) \o <<"]">>
      [] v.kind = "tuple" ->
            <<"(">> \o JoinReprs(v.elts, 1)
            \o (IF Len(v.elts) = 1 THEN <<",">> ELSE <<>>) \o <<")">>
      [] v.kind = "set" -> <<"{">> \o JoinReprs(v.elts, 1) \o <<"}">>
      [] v.kind = "dict" -> <<"{", "}">>

\* the two elements in the wrong order
FormatSwapped(coords) ==
    Str(coords.elts[2]) \o <<",", " ">> \o Str(coords.elts[1])

\* f"{coords[0]}, {coords[1]}"
Format(coords) == Str(coords.elts[1]) \o <<",", " ">> \o Str(coords.elts[2])


(***************************************************************************)
(* The program state.                                                      *)
(***************************************************************************)
VARIABLES
    main,             \* position of the module-level code
    model,            \* the global model binding
    processor,        \* the global processor binding
    model_loads,      \* number of Qwen2VLForConditionalGeneration.from_pretrained calls
    processor_loads,  \* number of AutoProcessor.from_pretrained calls
    handled,          \* number of predict calls started
    pc,               \* position of the current predict call
    image, query,     \* the arguments of predict
    messages,         \* the image entry of the message built by predict
    text,             \* the templated prompt, as tokens
    image_inputs,     \* the pixels of the resized image
    inputs,           \* the preprocessor's output
    generate_calls,   \* number of model.generate calls of this predict call
    generated_ids,    \* what model.generate returned
    output_text,      \* the decoded generated text
    result,           \* what predict returned
    error             \* the exception that left predict, if any

vars ==
    <<main, model, processor, model_loads, processor_loads, handled, pc,
      image, query, messages, text, image_inputs, inputs, generate_calls,
      generated_ids, output_text, result, error>>

globals == <<main, model, processor, model_loads, processor_loads>>

\* The number of predict calls explored.
MaxRequests == 2

NoModel == [loaded |-> FALSE, name |-> ""]
ShowUIModel == [loaded |-> TRUE, name |-> "showlab/ShowUI-2B"]

NoProcessor == [loaded |-> FALSE, min_pixels |-> 0, max_pixels |-> 0]
ShowUIProcessor ==
    [loaded |-> TRUE, min_pixels |-> MIN_PIXELS, max_pixels |-> MAX_PIXELS]

\* A screenshot of some size, or what is no image at all.
NoImage == [valid |-> FALSE, w |-> 0, h |-> 0]
Images ==
    { [valid |-> TRUE, w |-> 28, h |-> 28],
      [valid |-> TRUE, w |-> 3840, h |-> 2160],
      NoImage }
Queries == {"", "Submit button"}

NoMessages == [built |-> FALSE, image |-> NoImage, min_pixels |-> 0,
               max_pixels |-> 0, query |-> ""]
NoInputs == [input_ids |-> <<>>, pixels |-> 0]

NoResult == [returned |-> FALSE, value |-> <<>>]
Returned(s) == [returned |-> TRUE, value |-> s]

Terminal == {"parsed", "raw_fallback", "aborted"}

\* the failures of the calls predict makes before it parses the text
ExternalFailures ==
    {"apply_chat_template", "process_vision_info", "processor", "generate",
     "batch_decode"}

\* The generated texts the request life cycle is explored with, as token
\* sequences: a coordinate pair, a list of one, a bare pair, a name, a set
\* holding a list, and nothing.
SampleOutputs ==
    { << <<"[">>, <<".", "5">>, <<",">>, <<"1">>, <<"]">> >>,
      << <<"[">>, <<"1">>, <<"]">> >>,
      << <<"1">>, <<",">>, <<"1">> >>,
      << <<"e">> >>,
      << <<"{">>, <<"[">>, <<"]">>, <<"}">> >>,
      << >> }

\* Every token sequence of at most MaxTokens tokens.
AllOutputs == UNION { [1..n -> Vocabulary] : n \in 0..MaxTokens }

\* the tokens of the templated prompt
PromptIds(q) ==
    << <<"<|im_start|>">>, <<"<|vision_start|>">>, <<q>>, <<"<|im_end|>">> >>

\* smart_resize: the image area brought within the entry's pixel bounds
Resized(m) ==
    LET area == m.image.w * m.image.h
    IN  IF area < m.min_pixels THEN m.min_pixels
        ELSE IF area > m.max_pixels THEN m.max_pixels
        ELSE area

(***************************************************************************)
(* Module-level code: the two loads, then the launch of the server.        *)
(***************************************************************************)
Init ==
    /\ main = "load_model"
    /\ model = NoModel
    /\ processor = NoProcessor
    /\ model_loads = 0
    /\ processor_loads = 0
    /\ handled = 0
    /\ pc = "idle"
    /\ image = NoImage
    /\ query = ""
    /\ messages = NoMessages
    /\ text = <<>>
    /\ image_inputs = 0
    /\ inputs = NoInputs
    /\ generate_calls = 0
    /\ generated_ids = <<>>
    /\ output_text = <<>>
    /\ result = NoResult
    /\ error = "none"

request == <<handled, pc, image, query, messages, text, image_inputs, inputs,
             generate_calls, generated_ids, output_text, result, error>>

LoadModel ==
    /\ main = "load_model"
    /\ model' = ShowUIModel
    /\ model_loads' = model_loads + 1
    /\ main' = "load_processor"
    /\ UNCHANGED <<processor, processor_loads, request>>

LoadModelFails ==
    /\ main = "load_model"
    /\ model_loads' = model_loads + 1
    /\ main' = "crashed"
    /\ UNCHANGED <<model, processor, processor_loads, request>>

LoadProcessor ==
    /\ main = "load_processor"
    /\ processor' = ShowUIProcessor
    /\ processor_loads' = processor_loads + 1
    /\ main' = "loaded"
    /\ UNCHANGED <<model, model_loads, request>>

LoadProcessorFails ==
    /\ main = "load_processor"
    /\ processor_loads' = processor_loads + 1
    /\ main' = "crashed"
    /\ UNCHANGED <<model, processor, model_loads, request>>

\* demo.launch(), reached when the module runs as the main program
Launch ==
    /\ main = "loaded"
    /\ main' = "serving"
    /\ UNCHANGED <<model, processor, model_loads, processor_loads, request>>

(***************************************************************************)
(* predict(image, query)                                                   *)
(***************************************************************************)
\* the pixel bounds of the entry taken from the size of the image
BuildMessagesFitImage ==
    /\ main = "serving"
    /\ pc = "idle"
    /\ handled < MaxRequests
    /\ \E img \in Images, q \in Queries :
        /\ image' = img
        /\ query' = q
        /\ messages' = [built |-> TRUE, image |-> img,
                        min_pixels |-> MIN_PIXELS, max_pixels |-> img.w * img.h,
                        query |-> q]
    /\ handled' = handled + 1
    /\ pc' = "messages"
    /\ UNCHANGED <<main, model, processor, model_loads, processor_loads,
                   text, image_inputs, inputs, generate_calls, generated_ids,
                   output_text, result, error>>

\* The server calls predict: the message is built from the arguments.
BuildMessages ==
    /\ main = "serving"
    /\ pc = "idle"
    /\ handled < MaxRequests
    /\ \E img \in Images, q \in Queries :
        /\ image' = img
        /\ query' = q
        /\ messages' = [built |-> TRUE, image |-> img,
                        min_pixels |-> MIN_PIXELS, max_pixels |-> MAX_PIXELS,
                        query |-> q]
    /\ handled' = handled + 1
    /\ pc' = "messages"
    /\ UNCHANGED <<globals, text, image_inputs, inputs, generate_calls,
                   generated_ids, output_text, result, error>>

\* An exception leaves predict: no value is returned.
Abort(e) ==
    /\ pc' = "aborted"
    /\ error' = e
    /\ result' = NoResult

\* text = processor.apply_chat_template(messages, ...)
ApplyChatTemplate ==
    /\ pc = "messages"
    /\ text' = PromptIds(messages.query)
    /\ pc' = "text"
    /\ UNCHANGED <<globals, handled, image, query, messages, image_inputs,
                   inputs, generate_calls, generated_ids, output_text,
                   result, error>>

ApplyChatTemplateFails ==
    /\ pc = "messages"
    /\ Abort("apply_chat_template")
    /\ UNCHANGED <<globals, handled, image, query, messages, text,
                   image_inputs, inputs, generate_calls, generated_ids,
                   output_text>>

\* image_inputs, video_inputs = process_vision_info(messages): the image
\* is resized within the pixel bounds of its entry.
ProcessVisionInfo ==
    /\ pc = "text"
    /\ messages.image.valid
    /\ image_inputs' = Resized(messages)
    /\ pc' = "vision"
    /\ UNCHANGED <<globals, handled, image, query, messages, text, inputs,
                   generate_calls, generated_ids, output_text, result, error>>

\* What is no image cannot be processed, and the processing of one may fail.
ProcessVisionInfoFails ==
    /\ pc = "text"
    /\ Abort("process_vision_info")
    /\ UNCHANGED <<globals, handled, image, query, messages, text,
                   image_inputs, inputs, generate_calls, generated_ids,
                   output_text>>

\* inputs = processor(text=[text], images=image_inputs, ...).to(model.device)
Processor ==
    /\ pc = "vision"
    /\ inputs' = [input_ids |-> text, pixels |-> image_inputs]
    /\ pc' = "inputs"
    /\ UNCHANGED <<globals, handled, image, query, messages, text,
                   image_inputs, generate_calls, generated_ids, output_text,
                   result, error>>

\* The tokenization or the transfer to the device fails.
ProcessorFails ==
    /\ pc = "vision"
    /\ Abort("processor")
    /\ UNCHANGED <<globals, handled, image, query, messages, text,
                   image_inputs, inputs, generate_calls, generated_ids,
                   output_text>>

\* model.generate returns the prompt followed by the new tokens.
Generate ==
    /\ pc = "inputs"
    /\ \E new \in SampleOutputs :
        /\ Len(new) <= max_new_tokens
        /\ generated_ids' = inputs.input_ids \o new
    /\ generate_calls' = generate_calls + 1
    /\ pc' = "generated"
    /\ UNCHANGED <<globals, handled, image, query, messages, text,
                   image_inputs, inputs,
                   output_text, result, error>>

\* a failure of model.generate answered with an empty string
GenerateFailsHandled ==
    /\ pc = "inputs"
    /\ generate_calls' = generate_calls + 1
    /\ pc' = "raw_fallback"
    /\ error' = "generate"
    /\ result' = Returned(<<>>)
    /\ UNCHANGED <<globals, handled, image, query, messages, text,
                   image_inputs, inputs,
                   generated_ids, output_text>>

GenerateFails ==
    /\ pc = "inputs"
    /\ generate_calls' = generate_calls + 1
    /\ Abort("generate")
    /\ UNCHANGED <<globals, handled, image, query, messages, text,
                   image_inputs, inputs,
                   generated_ids, output_text>>

\* generated_ids_trimmed and batch_decode(...)[0]
Trimmed == SubSeq(generated_ids, Len(inputs.input_ids) + 1, Len(generated_ids))

Decode ==
    /\ pc = "generated"
    /\ output_text' = Concat(Trimmed)
    /\ pc' = "decoded"
    /\ UNCHANGED <<globals, handled, image, query, messages, text,
                   image_inputs, inputs,
                   generate_calls, generated_ids, result, error>>

DecodeFails ==
    /\ pc = "generated"
    /\ Abort("batch_decode")
    /\ UNCHANGED <<globals, handled, image, query, messages, text,
                   image_inputs, inputs,
                   generate_calls, generated_ids, output_text>>

\* the length test without the type test
AcceptsAnyPair(coords) == Len(coords.elts) = 2

\* isinstance(coords, list) and len(coords) == 2
Accepts(coords) == coords.kind = "list" /\ Len(coords.elts) = 2

\* except (ValueError, SyntaxError)
Caught(exc) == exc \in {"ValueError", "SyntaxError"}

\* The parse gave a list of two: its elements are formatted and returned.
ReturnFormatted ==
    /\ pc = "decoded"
    /\ LET r == literal_eval(output_text)
       IN  /\ r.exc = "none"
           /\ Accepts(r.val)
           /\ result' = Returned(Format(r.val))
    /\ pc' = "parsed"
    /\ UNCHANGED <<globals, handled, image, query, messages, text,
                   image_inputs, inputs,
                   generate_calls, generated_ids, output_text, error>>

\* The parse gave something else, or raised an exception that is caught:
\* the decoded text is returned.
ReturnRaw ==
    /\ pc = "decoded"
    /\ LET r == literal_eval(output_text)
       IN  \/ r.exc = "none" /\ ~Accepts(r.val)
           \/ r.exc # "none" /\ Caught(r.exc)
    /\ result' = Returned(output_text)
    /\ pc' = "raw_fallback"
    /\ UNCHANGED <<globals, handled, image, query, messages, text,
                   image_inputs, inputs,
                   generate_calls, generated_ids, output_text, error>>

\* The parse raised an exception that the except clause does not name.
ParseRaises ==
    /\ pc = "decoded"
    /\ LET r == literal_eval(output_text)
       IN  /\ r.exc # "none"
           /\ ~Caught(r.exc)
           /\ Abort(r.exc)
    /\ UNCHANGED <<globals, handled, image, query, messages, text,
                   image_inputs, inputs,
                   generate_calls, generated_ids, output_text>>

\* the end of a call that also releases the model
FinishReleasesModel ==
    /\ pc \in Terminal
    /\ pc' = "idle"
    /\ model' = NoModel
    /\ image' = NoImage
    /\ query' = ""
    /\ messages' = NoMessages
    /\ text' = <<>>
    /\ image_inputs' = 0
    /\ inputs' = NoInputs
    /\ generate_calls' = 0
    /\ generated_ids' = <<>>
    /\ output_text' = <<>>
    /\ result' = NoResult
    /\ error' = "none"
    /\ UNCHANGED <<main, processor, model_loads, processor_loads, handled>>

\* The call is over; the server waits for the next request.
Finish ==
    /\ pc \in Terminal
    /\ pc' = "idle"
    /\ image' = NoImage
    /\ query' = ""
    /\ messages' = NoMessages
    /\ text' = <<>>
    /\ image_inputs' = 0
    /\ inputs' = NoInputs
    /\ generate_calls' = 0
    /\ generated_ids' = <<>>
    /\ output_text' = <<>>
    /\ result' = NoResult
    /\ error' = "none"
    /\ UNCHANGED <<globals, handled>>

Next ==
    \/ LoadModel
    \/ LoadModelFails
    \/ LoadProcessor
    \/ LoadProcessorFails
    \/ Launch
    \/ BuildMessages
    \/ ApplyChatTemplate
    \/ ApplyChatTemplateFails
    \/ ProcessVisionInfo
    \/ ProcessVisionInfoFails
    \/ Processor
    \/ ProcessorFails
    \/ Generate
    \/ GenerateFails
    \/ Decode
    \/ DecodeFails
    \/ ReturnFormatted
    \/ ReturnRaw
    \/ ParseRaises
    \/ Finish

Spec == Init /\ [][Next]_vars

(***************************************************************************)
(* The post-processing of predict on every generated text within the       *)
(* bounds: model.generate has returned, and the text is decoded, parsed    *)
(* and returned.                                                           *)
(***************************************************************************)
InitParse ==
    /\ main = "serving"
    /\ model = ShowUIModel
    /\ processor = ShowUIProcessor
    /\ model_loads = 1
    /\ processor_loads = 1
    /\ handled = 1
    /\ pc = "generated"
    /\ image = [valid |-> TRUE, w |-> 3840, h |-> 2160]
    /\ query = "Submit button"
    /\ messages = [built |-> TRUE, image |-> image,
                   min_pixels |-> MIN_PIXELS, max_pixels |-> MAX_PIXELS,
                   query |-> query]
    /\ text = PromptIds(query)
    /\ image_inputs = Resized(messages)
    /\ inputs = [input_ids |-> text, pixels |-> image_inputs]
    /\ generate_calls = 1
    /\ generated_ids \in { PromptIds(query) \o new : new \in AllOutputs }
    /\ output_text = <<>>
    /\ result = NoResult
    /\ error = "none"

NextParse ==
    \/ Decode
    \/ ReturnFormatted
    \/ ReturnRaw
    \/ ParseRaises

SpecParse == InitParse /\ [][NextParse]_vars


(***************************************************************************)
(* Properties.                                                             *)
(***************************************************************************)
\* The text is a list display of exactly two number literals.
IsNumericPairLiteral(txt) ==
    LET p == Parse(txt)
    IN  /\ p.ok
        /\ p.node.kind = "List"
        /\ Len(p.node.elts) = 2
        /\ \A i \in 1..2 : p.node.elts[i].kind = "Constant"

\* the i-th number token of a numeric pair literal
Element(txt, i) == Parse(txt).node.elts[i].tok

\* The characters s denote the number v, with its type: s reads back as v.
Denotes(s, v) ==
    IF v.inf THEN s = <<"i", "n", "f">> ELSE literal_eval(s) = Value(v)

\* C1: when the decoded text is a list literal of two numbers, predict ends
\* in the parsed state and what it returned is "<a>, <b>", nothing else,
\* where a denotes the value of the literal's first element and b the value
\* of its second.
C1_NumericPairFormatted ==
    (pc \in Terminal /\ IsNumericPairLiteral(output_text)) =>
        /\ pc = "parsed"
        /\ result.returned
        /\ \E k \in 1..(Len(result.value) - 1) :
              /\ result.value[k] = ","
              /\ result.value[k + 1] = " "
              /\ Denotes(SubSeq(result.value, 1, k - 1),
                         Element(output_text, 1).val)
              /\ Denotes(SubSeq(result.value, k + 2, Len(result.value)),
                         Element(output_text, 2).val)

\* "[.5,1]" was generated and "0.5, 1" returned.
C1_Witness ==
    /\ pc = "parsed"
    /\ output_text = <<"[", ".", "5", ",", "1", "]">>
    /\ result = Returned(<<"0", ".", "5", ",", " ", "1">>)


\* C2: when the decoded text does not evaluate to a list of two elements
\* (the parse fails, or gives a list of another length, or gives a value
\* that is no list), predict returns the decoded text unchanged.
C2_RejectedReturnsRaw ==
    LET r == literal_eval(output_text)
    IN  (pc \in Terminal
            /\ (r.exc # "none" \/ r.val.kind # "list" \/ Len(r.val.elts) # 2))
        => (pc = "raw_fallback" /\ result = Returned(output_text))

\* C3: once generation has returned and its text is decoded, predict
\* returns a string: no exception of the parsing step leaves predict.
C3_NoParseFailureEscapes ==
    (pc \in Terminal /\ error \notin ExternalFailures)
        => (result.returned /\ error = "none")

\* The characters of a number token are the ones str() gives its value:
\* an integer without leading zeros, or a float in positional notation
\* with digits on both sides of the point, no leading zero before a digit,
\* no trailing zero after one, at most 15 significant digits and a
\* magnitude in [1e-4, 1e16).  (The exponent notation of str() carries a
\* sign, which no token of Vocabulary holds.)
AllDigits(s) == \A i \in 1..Len(s) : s[i] \in Digits

CanonicalInt(s) ==
    /\ s # <<>>
    /\ AllDigits(s)
    /\ s[1] = "0" => Len(s) = 1

CanonicalFloat(s) ==
    \E k \in 1..Len(s) :
        LET int == SubSeq(s, 1, k - 1)
            frac == SubSeq(s, k + 1, Len(s))
        IN  /\ s[k] = "."
            /\ CanonicalInt(int)
            /\ frac # <<>>
            /\ AllDigits(frac)
            /\ frac[Len(frac)] = "0" => Len(frac) = 1
            /\ Len(int) + Len(frac) <= 15
            /\ (int = <<"0">> /\ frac # <<"0">>)
                   => \E j \in 1..4 : j <= Len(frac) /\ frac[j] # "0"

Canonical(s) == CanonicalInt(s) \/ CanonicalFloat(s)

\* the two number tokens of the text, joined by ", "
Verbatim(txt) ==
    Element(txt, 1).src \o <<",", " ">> \o Element(txt, 2).src

EvaluatesToPair(txt, kinds) ==
    LET r == literal_eval(txt)
    IN  r.exc = "none" /\ r.val.kind \in kinds /\ Len(r.val.elts) = 2

\* C5 as stated: predict returns the formatted string if and only if the
\* parsed value is a sequence of two elements, list or tuple.
C5_AnyPairAccepted ==
    pc \in Terminal =>
        (pc = "parsed" <=> EvaluatesToPair(output_text, {"list", "tuple"}))

\* C5, amended: predict returns the formatted string if and only if the
\* parsed value is a list of two elements, whatever the elements are.
C5_ListPairAccepted ==
    pc \in Terminal =>
        (pc = "parsed" <=> EvaluatesToPair(output_text, {"list"}))

\* A tuple of two numbers was generated and returned as it is.
C5_Witness ==
    /\ pc = "raw_fallback"
    /\ EvaluatesToPair(output_text, {"tuple"})
    /\ result = Returned(output_text)


\* C7: a failure of preprocessing, of generation or of decoding leaves
\* predict as an exception: the call is aborted, nothing is returned, no
\* fallback value takes its place, and model.generate is never called a
\* second time in the call.
C7_FailuresPropagate ==
    /\ generate_calls <= 1
    /\ error \in ExternalFailures => (pc = "aborted" /\ result = NoResult)
    /\ pc \in {"parsed", "raw_fallback"} => error = "none"

\* model.generate raised: the call is aborted after its one attempt.
C7_Witness ==
    /\ pc = "aborted"
    /\ error = "generate"
    /\ generate_calls = 1
    /\ result = NoResult

\* C8: whatever the image and the query, the image entry of the message
\* carries min_pixels = 256*28*28 and max_pixels = 1344*28*28, the values
\* the processor was loaded with.
C8_PixelBounds ==
    messages.built =>
        /\ messages.min_pixels = 256 * 28 * 28
        /\ messages.max_pixels = 1344 * 28 * 28
        /\ processor.loaded
        /\ processor.min_pixels = messages.min_pixels
        /\ processor.max_pixels = messages.max_pixels

\* A second request, with the large image, has been preprocessed.
C8_Witness ==
    /\ handled = 2
    /\ pc = "inputs"
    /\ messages.built
    /\ messages.image.w = 3840
    /\ inputs.pixels = 1344 * 28 * 28

\* C9: a predict call whose generated text was decoded ends in the parsed
\* state or in the raw-fallback state, having called model.generate
\* exactly once.
C9_EndsParsedOrRaw ==
    (pc \in Terminal /\ error \notin ExternalFailures)
        => (pc \in {"parsed", "raw_fallback"} /\ generate_calls = 1)

\* C10: the model and the processor are each loaded once, before the
\* server is launched and before any request; no request is handled when a
\* load failed; and while requests are served the two bindings are the
\* ones the loads set.
C10_LoadedOnce ==
    /\ model_loads <= 1
    /\ processor_loads <= 1
    /\ main \in {"loaded", "serving"} =>
          /\ model_loads = 1
          /\ processor_loads = 1
          /\ model = ShowUIModel
          /\ processor = ShowUIProcessor
    /\ (handled > 0 \/ pc # "idle") => main = "serving"
    /\ main = "crashed" => (handled = 0 /\ pc = "idle")

\* Two predict calls have been made, the second one aborted.
C10_Witness ==
    /\ handled = 2
    /\ pc = "aborted"
    /\ main = "serving"
    /\ model = ShowUIModel


====
